---------------------------- MODULE Spec2Model ----------------------------
(***************************************************************************)
(* A model of the extraction-and-repair pipeline of the article corpus:    *)
(*   Sensing.py   parse_article_file, create_sensed_data_csv,              *)
(*                clean_csv_file (the line-level scanner)                  *)
(*   testV1.py    is_corrupted_row, clean_corrupted_data (the validator)   *)
(*   Pre_Processing.py   clean_text (the text normalizer)                  *)
(*                                                                         *)
(* Text is a sequence of tokens. A token is an atomic run of characters    *)
(* ("news", "https://", ...) or one of the single characters the code      *)
(* treats specially: "," "|" "\"" " " "\n" "\t" and the byte-order mark.   *)
(* No token of the alphabet can be formed by concatenating other tokens,   *)
(* so a text equals a word exactly when it is the one-token sequence of    *)
(* that word.  TokLen gives the number of characters of a token.           *)
(*                                                                         *)
(* Files are read and written on a platform whose line separator is "\n"   *)
(* and the texts hold no "\r" (Sensing.py writes with lineterminator "\n", *)
(* and read_text already maps "\r" to "\n").                               *)
(***************************************************************************)
EXTENDS Integers, Sequences, FiniteSets, TLC

VARIABLES
    \* ---- clean_csv_file (Sensing.py) ----
    csv_text,       \* content of sensed_data.csv (the output of Sensing.py, the
                    \* file the scanner and the validator read), or NoFile
    prev_text,      \* content of that file before the last run of clean_csv_file
    lines_to_skip,  \* the deletion set of the last run (0-based line indices)
    wrote,          \* whether the last run opened the file for writing
    scan_runs,      \* number of runs of clean_csv_file so far
    log,            \* what the last operation printed
    \* ---- is_corrupted_row (testV1.py) ----
    row,            \* the decoded row given to is_corrupted_row
    verdict,        \* what is_corrupted_row returned for it, or NoVerdict
    \* ---- clean_corrupted_data (testV1.py) ----
    input_from,         \* who wrote the file the pass reads: "sensing" or "validator"
    output_file,        \* content of output_file, or NoFile
    df,                 \* the frame the last pass read from sensed_data.csv
    corrupted_indices,  \* the flagged index labels, in scan order
    indices_to_remove,  \* the removal set of the last pass
    df_clean,           \* the frame after drop and reset_index
    remaining_issues,   \* flagged rows counted in df_clean
    outcome,            \* "idle", "returned" or "raised"
    passes,             \* number of passes of clean_corrupted_data so far
    \* ---- create_sensed_data_csv (Sensing.py) ----
    data_dir,           \* the data directory: per category whether its folder
                        \* exists and its *.txt files in glob order, each a
                        \* text or Undecodable
    sensed,             \* what create_sensed_data_csv returned: status "not run",
                        \* "none" or "frame", and the frame
    articles,           \* what collect_all_articles returned to it
    \* ---- parse_article_file (Sensing.py) ----
    file_path,          \* the file given to parse_article_file: its content (a
                        \* text or Undecodable) and the name of its folder
    article_data,       \* what parse_article_file returned: status "not called",
                        \* "none" or "record", and the record
    \* ---- clean_text (Pre_Processing.py) ----
    text_arg,           \* the value given to clean_text
    cleaned             \* what clean_text returned for it, or NotCleaned

scanVars == <<csv_text, prev_text, lines_to_skip, wrote, scan_runs>>
rowVars == <<row, verdict>>
valVars == <<input_from, output_file, df, corrupted_indices, indices_to_remove,
             df_clean, remaining_issues, outcome, passes>>
senseVars == <<data_dir, sensed, articles>>
parseVars == <<file_path, article_data>>
textVars == <<text_arg, cleaned>>
vars == <<csv_text, prev_text, lines_to_skip, wrote, scan_runs, log, row, verdict,
          input_from, output_file, df, corrupted_indices, indices_to_remove,
          df_clean, remaining_issues, outcome, passes, data_dir, sensed, articles,
          file_path, article_data, text_arg, cleaned>>

-----------------------------------------------------------------------------
(* Bounds of the model *)

MaxLines == 4
MaxScanRuns == 2

-----------------------------------------------------------------------------
(* Characters and text *)

LF == "\n"
TAB == "\t"
SP == " "
QUOTE == "\""
COMMA == ","
BOM == "<U+FEFF>"

\* str.isspace() of the characters of the alphabet (U+FEFF is not whitespace)
IsSpace(c) == c \in {SP, LF, TAB}

RECURSIVE lstrip(_)
lstrip(s) == IF s # <<>> /\ IsSpace(Head(s)) THEN lstrip(Tail(s)) ELSE s

RECURSIVE rstrip(_)
rstrip(s) == IF s # <<>> /\ IsSpace(s[Len(s)]) THEN rstrip(SubSeq(s, 1, Len(s) - 1)) ELSE s

\* str.strip()
strip(s) == rstrip(lstrip(s))

\* str.replace(c, '') for a one-character c
remove_char(s, c) == SelectSeq(s, LAMBDA x : x # c)

\* index of the first occurrence of c in s, 0 when there is none
RECURSIVE find_from(_, _, _)
find_from(s, c, i) ==
    IF i > Len(s) THEN 0
    ELSE IF s[i] = c THEN i
    ELSE find_from(s, c, i + 1)

find(s, c) == find_from(s, c, 1)

\* s.split(c)[0]
split_first(s, c) ==
    IF find(s, c) = 0 THEN s ELSE SubSeq(s, 1, find(s, c) - 1)

\* f.readlines(): the physical lines, each keeping its "\n"; a last line
\* without "\n" is a line too
RECURSIVE readlines(_)
readlines(text) ==
    IF text = <<>> THEN <<>>
    ELSE IF find(text, LF) = 0 THEN <<text>>
    ELSE <<SubSeq(text, 1, find(text, LF))>>
            \o readlines(SubSeq(text, find(text, LF) + 1, Len(text)))

\* f.write(line) for each line in turn
RECURSIVE concat(_)
concat(ls) == IF ls = <<>> THEN <<>> ELSE Head(ls) \o concat(Tail(ls))

-----------------------------------------------------------------------------
(* clean_csv_file: the line-level scanner *)

NoFile == <<"<no file>">>

valid_labels == {"news", "sport", "commentisfree", "culture", "label"}

\* parts[0].strip().replace('"', '').replace(BOM, '')
first_col(line) == remove_char(remove_char(strip(split_first(line, COMMA)), QUOTE), BOM)

\* first_col not in valid_labels
is_broken(line) == ~(\E l \in valid_labels : first_col(line) = <<l>>)

\* the indices the loop over enumerate(lines) adds for line i (0-based)
skip_marks_bug(lines, i) ==
    IF is_broken(lines[i + 1]) THEN {i} ELSE {}

skip_marks_unclamped(lines, i) ==
    IF is_broken(lines[i + 1]) THEN {i, i - 1} ELSE {}

\* a loop that marks a broken line only when the line before it is not broken
skip_marks_first_fragment(lines, i) ==
    IF is_broken(lines[i + 1]) /\ (i = 0 \/ ~is_broken(lines[i]))
    THEN {i} \cup (IF i > 0 THEN {i - 1} ELSE {})
    ELSE {}

\* a loop that marks the line before a broken line and not the line itself
skip_marks_prev_only(lines, i) ==
    IF is_broken(lines[i + 1]) THEN (IF i > 0 THEN {i - 1} ELSE {i}) ELSE {}

skip_marks(lines, i) ==
    IF is_broken(lines[i + 1])
    THEN {i} \cup (IF i > 0 THEN {i - 1} ELSE {})
    ELSE {}

collect_skips(lines) ==
    UNION {skip_marks(lines, i) : i \in 0 .. Len(lines) - 1}

\* the lines written back: those whose index is not in skip, in order
RECURSIVE keep_from(_, _, _)
keep_from(lines, skip, i) ==
    IF i >= Len(lines) THEN <<>>
    ELSE (IF i \in skip THEN <<>> ELSE <<lines[i + 1]>>) \o keep_from(lines, skip, i + 1)

\* a second pass that writes every line back
good_lines_bug(lines, skip) == lines

good_lines(lines, skip) == keep_from(lines, skip, 0)

\* whether the run with this deletion set rewrites the file
does_write_bug(skip) == TRUE

does_write(skip) == skip # {}

clean_csv_file ==
    /\ scan_runs < MaxScanRuns
    /\ scan_runs' = scan_runs + 1
    /\ prev_text' = csv_text
    /\ UNCHANGED rowVars
    /\ UNCHANGED valVars
    /\ UNCHANGED senseVars
    /\ UNCHANGED parseVars
    /\ UNCHANGED textVars
    /\ IF csv_text = NoFile
       THEN \* not path.exists(): return
            /\ UNCHANGED <<csv_text>>
            /\ lines_to_skip' = {}
            /\ wrote' = FALSE
            /\ log' = <<"Running CSV cleanup">>
       ELSE LET lines == readlines(csv_text)
                skip == collect_skips(lines)
            IN  /\ lines_to_skip' = skip
                /\ wrote' = does_write(skip)
                /\ IF does_write(skip)
                   THEN /\ csv_text' = concat(good_lines(lines, skip))
                        /\ log' = <<"Running CSV cleanup", "Found lines to remove", "Cleanup complete">>
                   ELSE /\ UNCHANGED csv_text
                        /\ log' = <<"Running CSV cleanup", "No broken lines found">>

-----------------------------------------------------------------------------
(* The parts of the state an operation does not use *)

EmptyFrame == [columns |-> <<>>, index |-> <<>>, rows |-> <<>>]

ScanIdle ==
    /\ csv_text = NoFile
    /\ prev_text = NoFile
    /\ lines_to_skip = {}
    /\ wrote = FALSE
    /\ scan_runs = 0

RowIdle ==
    /\ row = [label |-> <<>>]
    /\ verdict = [is_corrupt |-> FALSE, issues |-> <<"<not called>">>]

ValIdle ==
    /\ input_from = "sensing"
    /\ output_file = NoFile
    /\ df = EmptyFrame
    /\ corrupted_indices = <<>>
    /\ indices_to_remove = {}
    /\ df_clean = EmptyFrame
    /\ remaining_issues = 0
    /\ outcome = "idle"
    /\ passes = 0

CategorySet == {"news", "sport", "commentisfree", "culture"}

SenseIdle ==
    /\ data_dir = [c \in CategorySet |-> [exists |-> FALSE, files |-> <<>>]]
    /\ sensed = [status |-> "not run", frame |-> EmptyFrame]
    /\ articles = <<>>

EmptyRecord ==
    [section |-> <<>>, date |-> <<>>, byline |-> <<>>, url |-> <<>>, headline |-> <<>>,
     body_text |-> <<>>, label |-> <<>>]

NotParsed == [status |-> "not called", record |-> EmptyRecord]

ParseIdle ==
    /\ file_path = [content |-> <<>>, category |-> "news"]
    /\ article_data = NotParsed

NotCleaned == <<"<not called>">>

TextIdle ==
    /\ text_arg = <<>>
    /\ cleaned = NotCleaned

-----------------------------------------------------------------------------
(* Decoded values and is_corrupted_row: the row classifier *)

\* the number of characters of a token; every other token is one character
TokLen(t) ==
    CASE t \in {"Hi", "UK", "NA"} -> 2
      [] t \in {"nan"} -> 3
      [] t \in {"news", "Head", "www.", "null"} -> 4
      [] t \in {"sport", "label", "Title"} -> 5
      [] t \in {"culture", "weather", "http://", "2024-01"} -> 7
      [] t \in {"https://", "Jan-2024"} -> 8
      [] t \in {"not-a-url", "newspaper"} -> 9
      [] t \in {"2024-01-01"} -> 10
      [] t \in {"example.org"} -> 11
      [] t \in {"commentisfree"} -> 13
      [] t \in {"theguardian.com"} -> 15
      [] t \in {"<19 chars>"} -> 19
      [] t \in {"<20 chars>", "2024-01-01T00:00:00Z"} -> 20
      [] t \in {"2024-01-01T00:00:00.0"} -> 21
      [] t \in {"<100 chars>"} -> 100
      [] t \in {"<101 chars>"} -> 101
      [] t \in {"<200 chars>"} -> 200
      [] t \in {"<201 chars>"} -> 201
      [] t \in {"<500 chars>"} -> 500
      [] t \in {"<501 chars>"} -> 501
      [] OTHER -> 1

\* len(text)
RECURSIVE text_len(_)
text_len(s) == IF s = <<>> THEN 0 ELSE TokLen(Head(s)) + text_len(Tail(s))

\* the missing value pandas decodes an empty cell to (a float NaN)
NaN == <<"<NaN>">>

\* pd.notna(v)
notna(v) == v # NaN

\* str(v): 'nan' for the missing value
str(v) == IF v = NaN THEN <<"nan">> ELSE v

\* t.startswith(w) for a token t and a word w
TokStartsWith(t, w) == t = w \/ (t = "newspaper" /\ w = "news")

\* text.startswith(w)
startswith(s, w) == s # <<>> /\ TokStartsWith(Head(s), w)

\* w in text, for a word w that is a token of the alphabet
contains(s, w) == \E i \in 1 .. Len(s) : s[i] = w

categories == <<"news", "sport", "commentisfree", "culture">>

in_list(v, l) == \E i \in 1 .. Len(l) : v = <<l[i]>>

\* Check 1: label must be one of the valid categories
check_label_missing_ok(r) ==
    IF notna(r["label"])
    THEN (IF ~in_list(r["label"], categories) THEN <<"Invalid label">> ELSE <<>>)
    ELSE <<>>

check_label_bug(r) ==
    IF notna(r["label"])
    THEN <<>>
    ELSE <<"Missing label">>

check_label(r) ==
    IF notna(r["label"])
    THEN (IF ~in_list(r["label"], categories) THEN <<"Invalid label">> ELSE <<>>)
    ELSE <<"Missing label">>

\* Check 2: body text should be reasonably long
check_body_len(r) ==
    IF text_len(str(r["body_text"])) < 20 THEN <<"Body text too short">> ELSE <<>>

\* Check 3: body text should not start with a category name
check_body_start(r) ==
    IF \E i \in 1 .. Len(categories) : startswith(str(r["body_text"]), categories[i])
    THEN <<"Body text starts with category name">> ELSE <<>>

\* Check 4: section should be short
check_section(r) ==
    IF text_len(str(r["section"])) > 100 THEN <<"Section field too long">> ELSE <<>>

\* Check 5: date should follow a date pattern
check_date(r) ==
    IF notna(r["date"]) /\ text_len(str(r["date"])) > 0
    THEN (IF text_len(str(r["date"])) > 20 \/ text_len(str(r["date"])) < 8
          THEN <<"Date format suspicious">> ELSE <<>>)
    ELSE <<>>

\* Check 6: URL should contain "theguardian.com"
check_url_bug(r) ==
    IF ~contains(str(r["url"]), "theguardian.com") \/ ~contains(str(r["url"]), "https://")
    THEN <<"Invalid URL">> ELSE <<>>

check_url(r) ==
    IF ~contains(str(r["url"]), "theguardian.com") /\ ~contains(str(r["url"]), "https://")
    THEN <<"Invalid URL">> ELSE <<>>

\* Check 7: byline should not be extremely long
check_byline(r) ==
    IF text_len(str(r["byline"])) > 200 THEN <<"Byline too long">> ELSE <<>>

\* Check 8: headline should not be missing or extremely long
check_headline_bug(r) ==
    IF text_len(str(r["headline"])) < 5 THEN <<"Headline too short">>
    ELSE <<>>

check_headline(r) ==
    IF text_len(str(r["headline"])) < 5 THEN <<"Headline too short">>
    ELSE IF text_len(str(r["headline"])) > 500 THEN <<"Headline too long">>
    ELSE <<>>

row_issues(r) ==
    check_label(r) \o check_body_len(r) \o check_body_start(r) \o check_section(r)
        \o check_date(r) \o check_url(r) \o check_byline(r) \o check_headline(r)

\* the pair (is_corrupt, issues) the function returns
row_verdict(r) ==
    IF row_issues(r) # <<>>
    THEN [is_corrupt |-> TRUE, issues |-> row_issues(r)]
    ELSE [is_corrupt |-> FALSE, issues |-> <<>>]

NoVerdict == [is_corrupt |-> FALSE, issues |-> <<"<not called>">>]

is_corrupted_row ==
    /\ verdict = NoVerdict
    /\ verdict' = row_verdict(row)
    /\ UNCHANGED <<row, log>>
    /\ UNCHANGED scanVars
    /\ UNCHANGED valVars
    /\ UNCHANGED senseVars
    /\ UNCHANGED parseVars
    /\ UNCHANGED textVars

-----------------------------------------------------------------------------
(* Inputs of the classifier: one decoded row *)

Columns == {"label", "section", "date", "byline", "headline", "url", "body_text"}

LabelValues == { <<"news">>, <<"culture">>, <<"weather">>, <<"label">>, NaN }
SectionValues == { <<"UK">>, <<"<100 chars>">>, <<"<101 chars>">>, NaN }
DateValues ==
    { <<"2024-01-01">>, <<"2024-01">>, <<"Jan-2024">>, <<"2024-01-01T00:00:00Z">>,
      <<"2024-01-01T00:00:00.0">>, NaN }
BylineValues == { <<"<200 chars>">>, <<"<201 chars>">>, NaN }
HeadlineValues ==
    { <<"Hi">>, <<"Head">>, <<"Title">>, <<"<500 chars>">>, <<"<501 chars>">>, NaN }
UrlValues ==
    { <<"https://", "www.", "theguardian.com", "/", "a">>, <<"www.", "theguardian.com">>,
      <<"https://", "example.org">>, <<"http://", "example.org">>,
      <<"/", "https://", "example.org">>, <<"not-a-url">>, NaN }
BodyValues ==
    { <<"<20 chars>">>, <<"<19 chars>">>, <<"news", SP, "<20 chars>">>,
      <<"newspaper", SP, "<20 chars>">>, <<"<20 chars>", SP, "sport">>, NaN }

Rows ==
    { [label |-> l, section |-> s, date |-> d, byline |-> b, headline |-> h,
       url |-> u, body_text |-> t] :
         l \in LabelValues, s \in SectionValues, d \in DateValues, b \in BylineValues,
         h \in HeadlineValues, u \in UrlValues, t \in BodyValues }

InitRow ==
    /\ row \in Rows
    /\ verdict = NoVerdict
    /\ log = <<>>
    /\ ScanIdle
    /\ ValIdle
    /\ SenseIdle
    /\ ParseIdle
    /\ TextIdle

NextRow == is_corrupted_row

SpecRow == InitRow /\ [][NextRow]_vars

-----------------------------------------------------------------------------
(* Inputs of the scanner: files of up to MaxLines physical lines *)

\* the text that follows the first column of the i-th line: a delimiter and
\* a payload that tells the lines apart
Payload(i) ==
    <<"r1", "r2", "r3", "r4", "r5", "r6", "r7", "r8", "r9", "r10", "r11", "r12">>[i]

\* first-column texts: the header, labels (bare, quoted) and the start of a
\* fragment
FirstCols ==
    { <<"label">>, <<"news">>, <<QUOTE, "sport", QUOTE>>, <<"weather">> }

\* a physical line: with a delimiter after the first column, or (a fragment,
\* an empty line) without any
LineOf(fc, i) == fc \o <<COMMA, Payload(i), LF>>
BareLineOf(i) == <<Payload(i), LF>>
EmptyLine == <<LF>>

LinesAt(i) == {LineOf(fc, i) : fc \in FirstCols} \cup {BareLineOf(i), EmptyLine}

\* the files of exactly n physical lines
RECURSIVE FilesOfLen(_)
FilesOfLen(n) ==
    IF n = 0 THEN {<<>>}
    ELSE {f \o l : f \in FilesOfLen(n - 1), l \in LinesAt(n)}

ScanFiles == UNION {FilesOfLen(n) : n \in 0 .. MaxLines}

InitScan ==
    /\ csv_text \in ScanFiles \cup {NoFile}
    /\ prev_text = csv_text
    /\ lines_to_skip = {}
    /\ wrote = FALSE
    /\ scan_runs = 0
    /\ log = <<>>
    /\ RowIdle
    /\ ValIdle
    /\ SenseIdle
    /\ ParseIdle
    /\ TextIdle

NextScan == clean_csv_file

SpecScan == InitScan /\ [][NextScan]_vars

-----------------------------------------------------------------------------
(* Inputs of the scanner's token extraction: files of one physical line *)

\* first-column texts: a word, or nothing, inside optional quote characters,
\* with optional spaces inside and outside them and an optional byte-order
\* mark in front
Optional(c) == {<<>>, <<c>>}

TokenCols ==
    {bom \o lead \o oq \o inner \o word \o cq \o trail :
        bom \in Optional(BOM), lead \in Optional(SP), oq \in Optional(QUOTE),
        inner \in Optional(SP),
        word \in {<<"label">>, <<"news">>, <<"weather">>, <<>>},
        cq \in Optional(QUOTE), trail \in Optional(SP)}

TokenLines ==
    {fc \o <<COMMA, Payload(1), LF>> : fc \in TokenCols} \cup {fc \o <<LF>> : fc \in TokenCols}

InitToken ==
    /\ csv_text \in TokenLines
    /\ prev_text = csv_text
    /\ lines_to_skip = {}
    /\ wrote = FALSE
    /\ scan_runs = 0
    /\ log = <<>>
    /\ RowIdle
    /\ ValIdle
    /\ SenseIdle
    /\ ParseIdle
    /\ TextIdle

NextToken == clean_csv_file

SpecToken == InitToken /\ [][NextToken]_vars

-----------------------------------------------------------------------------
(* pandas' CSV writer and reader, as the pipeline calls them *)

\* a data frame: column names in order, index labels, and one row (a
\* function from column name to value) per index label
DataFrame(cols, rs) ==
    [columns |-> cols, index |-> [k \in 1 .. Len(rs) |-> k - 1], rows |-> rs]

\* the csv writer doubles each quote character of a quoted field
RECURSIVE double_quotes(_)
double_quotes(s) ==
    IF s = <<>> THEN <<>>
    ELSE (IF Head(s) = QUOTE THEN <<QUOTE, QUOTE>> ELSE <<Head(s)>>) \o double_quotes(Tail(s))

\* QUOTE_MINIMAL quotes a field that holds the delimiter, the quote character
\* or a line break
needs_quotes(s) == \E i \in 1 .. Len(s) : s[i] \in {COMMA, QUOTE, LF}

\* one written cell; the missing value is written as the empty text (na_rep)
write_cell(v, quote_all) ==
    LET t == IF v = NaN THEN <<>> ELSE v
    IN  IF quote_all \/ needs_quotes(t)
        THEN <<QUOTE>> \o double_quotes(t) \o <<QUOTE>>
        ELSE t

RECURSIVE write_cells(_, _)
write_cells(cells, quote_all) ==
    IF cells = <<>> THEN <<>>
    ELSE write_cell(Head(cells), quote_all)
            \o (IF Len(cells) > 1 THEN <<COMMA>> ELSE <<>>)
            \o write_cells(Tail(cells), quote_all)

write_record(cells, quote_all) == write_cells(cells, quote_all) \o <<LF>>

\* df.to_csv(path, index=False, quoting=...): the header, then a line per row
to_csv(frame, quote_all) ==
    write_record([k \in 1 .. Len(frame.columns) |-> <<frame.columns[k]>>], quote_all)
        \o concat([i \in 1 .. Len(frame.rows) |->
                     write_record([k \in 1 .. Len(frame.columns) |->
                                      frame.rows[i][frame.columns[k]]], quote_all)])

\* the reader's tokenizer, one record at a time: the fields of the record
\* that starts at text[i], the place after its end, and whether it is a blank
\* line. mode is "start" (at the start of a field), "plain" (in an unquoted
\* field), "quoted" (in a quoted field) or "closing" (after a quote inside a
\* quoted field).
RECURSIVE read_record(_, _, _, _, _)
read_record(text, i, mode, field, rec) ==
    IF i > Len(text) \/ (mode # "quoted" /\ text[i] = LF)
    THEN [rec |-> Append(rec, field), next |-> i + 1, blank |-> mode = "start" /\ rec = <<>>]
    ELSE IF mode = "quoted"
    THEN IF text[i] = QUOTE
         THEN read_record(text, i + 1, "closing", field, rec)
         ELSE read_record(text, i + 1, "quoted", Append(field, text[i]), rec)
    ELSE IF mode = "closing" /\ text[i] = QUOTE
    THEN read_record(text, i + 1, "quoted", Append(field, QUOTE), rec)
    ELSE IF text[i] = COMMA
    THEN read_record(text, i + 1, "start", <<>>, Append(rec, field))
    ELSE IF mode = "start" /\ text[i] = QUOTE
    THEN read_record(text, i + 1, "quoted", <<>>, rec)
    ELSE read_record(text, i + 1, "plain", Append(field, text[i]), rec)

\* the records of the text; blank lines are skipped
RECURSIVE records_from(_, _, _)
records_from(text, i, recs) ==
    IF i > Len(text) THEN recs
    ELSE LET r == read_record(text, i, "start", <<>>, <<>>)
         IN  records_from(text, r.next, IF r.blank THEN recs ELSE Append(recs, r.rec))

csv_records(text) == records_from(text, 1, <<>>)

\* cell texts the reader decodes to the missing value (some of pandas'
\* default na_values; the empty cell, quoted or not, is one of them)
na_values == { <<>>, <<"NA">>, <<"nan">>, <<"null">> }

read_cell(t) == IF t \in na_values THEN NaN ELSE t

\* the frame of the records of a file: record 1 names the columns; a record
\* shorter than the header is filled with missing values
frame_of(recs) ==
    LET cols == [k \in 1 .. Len(recs[1]) |-> recs[1][k][1]]
        colset == {cols[k] : k \in 1 .. Len(cols)}
        pos == [c \in colset |-> CHOOSE k \in 1 .. Len(cols) : cols[k] = c]
        decode(r) == [c \in colset |-> IF pos[c] <= Len(r) THEN read_cell(r[pos[c]]) ELSE NaN]
    IN  DataFrame(cols, [i \in 1 .. Len(recs) - 1 |-> decode(recs[i + 1])])

\* pd.read_csv(path)
read_csv(text) == frame_of(csv_records(text))

\* whether the file has a first record and that record names the seven
\* columns the validator reads. Without a record read_csv raises
\* EmptyDataError; with a first record that is not the header (the scanner
\* deleted line 0) row['label'] raises KeyError.
has_columns(recs) ==
    /\ recs # <<>>
    /\ \A c \in {"label", "section", "date", "byline", "headline", "url", "body_text"} :
           \E k \in 1 .. Len(recs[1]) : recs[1][k] = <<c>>

-----------------------------------------------------------------------------
(* clean_corrupted_data: the row validator *)

\* for idx, row in df.iterrows(): the flagged index labels, in order
RECURSIVE flagged_from(_, _)
flagged_from(frame, k) ==
    IF k > Len(frame.rows) THEN <<>>
    ELSE (IF row_verdict(frame.rows[k]).is_corrupt THEN <<frame.index[k]>> ELSE <<>>)
            \o flagged_from(frame, k + 1)

flagged(frame) == flagged_from(frame, 1)

\* what one corrupted index adds to indices_to_remove
blast_bug(idx, n) == {idx} \cup (IF idx > 0 THEN {idx - 1} ELSE {})

blast_no_self(idx, n) ==
    (IF idx > 0 THEN {idx - 1} ELSE {}) \cup (IF idx < n - 1 THEN {idx + 1} ELSE {})

blast(idx, n) ==
    {idx} \cup (IF idx > 0 THEN {idx - 1} ELSE {})
          \cup (IF idx < n - 1 THEN {idx + 1} ELSE {})

\* a loop that leaves out the last corrupted index
removal_set_bug(corrupted, n) ==
    UNION {blast(corrupted[k], n) : k \in 1 .. Len(corrupted) - 1}

removal_set(corrupted, n) ==
    UNION {blast(corrupted[k], n) : k \in 1 .. Len(corrupted)}

\* df.drop(index=list(indices_to_remove))
RECURSIVE kept_positions(_, _, _)
kept_positions(frame, remove, k) ==
    IF k > Len(frame.rows) THEN <<>>
    ELSE (IF frame.index[k] \in remove THEN <<>> ELSE <<k>>) \o kept_positions(frame, remove, k + 1)

drop(frame, remove) ==
    LET keep == kept_positions(frame, remove, 1)
    IN  [columns |-> frame.columns,
         index |-> [j \in 1 .. Len(keep) |-> frame.index[keep[j]]],
         rows |-> [j \in 1 .. Len(keep) |-> frame.rows[keep[j]]]]

\* df.reset_index(drop=True)
reset_index(frame) ==
    [columns |-> frame.columns,
     index |-> [j \in 1 .. Len(frame.rows) |-> j - 1],
     rows |-> frame.rows]

\* df['label'].value_counts(): the count of each present label
value_counts(frame) ==
    LET present_labels == {frame.rows[k]["label"] : k \in 1 .. Len(frame.rows)} \ {NaN}
    IN  [l \in present_labels |-> Cardinality({k \in 1 .. Len(frame.rows) : frame.rows[k]["label"] = l})]

MaxPasses == 2

clean_corrupted_data ==
    /\ passes < MaxPasses
    /\ csv_text # NoFile
    /\ passes' = passes + 1
    /\ \E recs \in {csv_records(csv_text)} :
         IF ~has_columns(recs)
         THEN \* EmptyDataError from read_csv, or KeyError from the first use
              \* of a column (ZeroDivisionError when there is no row to use)
              /\ outcome' = "raised"
              /\ df' = EmptyFrame
              /\ corrupted_indices' = <<>>
              /\ indices_to_remove' = {}
              /\ df_clean' = EmptyFrame
              /\ remaining_issues' = 0
              /\ UNCHANGED output_file
              /\ log' = <<"CLEANING CORRUPTED DATA">>
         ELSE
           \E frame \in {frame_of(recs)} :
           \E corrupted \in {flagged(frame)} :
           \E clean \in {reset_index(drop(frame, removal_set(corrupted, Len(frame.rows))))} :
               /\ df' = frame
               /\ corrupted_indices' = corrupted
               /\ indices_to_remove' = removal_set(corrupted, Len(frame.rows))
               /\ df_clean' = clean
               /\ IF Len(frame.rows) = 0
                  THEN \* initial_count = 0: removed_count / initial_count raises
                       \* ZeroDivisionError
                       /\ outcome' = "raised"
                       /\ remaining_issues' = 0
                       /\ UNCHANGED output_file
                       /\ log' = <<"CLEANING CORRUPTED DATA", "Results">>
                  ELSE /\ outcome' = "returned"
                       /\ remaining_issues' = Len(flagged(clean))
                       /\ output_file' = to_csv(clean, TRUE)
                       /\ log' = <<"CLEANING CORRUPTED DATA", "Results",
                                   IF Len(flagged(clean)) > 0 THEN "rows still have issues"
                                                              ELSE "All rows passed validation",
                                   "Clean data saved">>
    /\ UNCHANGED input_from
    /\ UNCHANGED scanVars
    /\ UNCHANGED rowVars
    /\ UNCHANGED senseVars
    /\ UNCHANGED parseVars
    /\ UNCHANGED textVars

\* the next step the script prints: review cleaned_data.csv and rename it to
\* sensed_data.csv, the input of a further pass
rename_output ==
    /\ passes < MaxPasses
    /\ outcome = "returned"
    /\ output_file # NoFile
    /\ csv_text' = output_file
    /\ input_from' = "validator"
    /\ output_file' = NoFile
    /\ outcome' = "idle"
    /\ UNCHANGED <<df, corrupted_indices, indices_to_remove, df_clean, remaining_issues, passes, log>>
    /\ UNCHANGED <<prev_text, lines_to_skip, wrote, scan_runs>>
    /\ UNCHANGED rowVars
    /\ UNCHANGED senseVars
    /\ UNCHANGED parseVars
    /\ UNCHANGED textVars

-----------------------------------------------------------------------------
(* Inputs of the validator: the corpus file Sensing.py wrote *)

MaxRows == 4
MaxWideRows == 10

column_order == <<"label", "section", "date", "byline", "headline", "url", "body_text">>

Article(l, b, h, t, i) ==
    [label |-> l, section |-> <<"UK">>, date |-> <<"2024-01-01">>, byline |-> b,
     headline |-> h, url |-> <<"https://", "www.", "theguardian.com", "/", Payload(i)>>,
     body_text |-> t]

\* records as create_sensed_data_csv holds them (text in every field, the
\* empty text where the source had nothing)
GoodNews(i) == Article(<<"news">>, <<>>, <<"Title">>, <<"<20 chars>">>, i)
GoodSport(i) ==
    Article(<<"sport">>, <<"NA">>, <<"Title", COMMA, SP, QUOTE, "Hi", QUOTE>>,
            <<"<20 chars>", COMMA, SP, "news">>, i)
BadLabel(i) == Article(<<"weather">>, <<>>, <<"Title">>, <<"<20 chars>">>, i)
NoLabel(i) == Article(<<>>, <<>>, <<"Title">>, <<"<20 chars>">>, i)

ArticlesAt(i) == {GoodNews(i), GoodSport(i), BadLabel(i), NoLabel(i)}
WideArticlesAt(i) == {GoodNews(i), BadLabel(i)}

RECURSIVE CorporaOfLen(_)
CorporaOfLen(n) ==
    IF n = 0 THEN {<<>>}
    ELSE {Append(c, a) : c \in CorporaOfLen(n - 1), a \in ArticlesAt(n)}

RECURSIVE WideCorporaOfLen(_)
WideCorporaOfLen(n) ==
    IF n = 0 THEN {<<>>}
    ELSE {Append(c, a) : c \in WideCorporaOfLen(n - 1), a \in WideArticlesAt(n)}

Corpora ==
    UNION {CorporaOfLen(n) : n \in 0 .. MaxRows}
        \cup UNION {WideCorporaOfLen(n) : n \in 0 .. MaxWideRows}

InitValidate ==
    /\ csv_text \in {to_csv(DataFrame(column_order, c), FALSE) : c \in Corpora}
    /\ prev_text = csv_text
    /\ lines_to_skip = {}
    /\ wrote = FALSE
    /\ scan_runs = 0
    /\ log = <<>>
    /\ ValIdle
    /\ RowIdle
    /\ SenseIdle
    /\ ParseIdle
    /\ TextIdle

NextValidate == clean_corrupted_data \/ rename_output

SpecValidate == InitValidate /\ [][NextValidate]_vars

-----------------------------------------------------------------------------
(* The two repair passes over one corpus file: the scanner, the validator   *)
(* and the renaming of the validator's output, in any order                 *)

InitRepair ==
    /\ csv_text \in {to_csv(DataFrame(column_order, c), FALSE) :
                        c \in UNION {CorporaOfLen(n) : n \in 0 .. MaxRows}}
    /\ prev_text = csv_text
    /\ lines_to_skip = {}
    /\ wrote = FALSE
    /\ scan_runs = 0
    /\ log = <<>>
    /\ ValIdle
    /\ RowIdle
    /\ SenseIdle
    /\ ParseIdle
    /\ TextIdle

NextRepair == clean_csv_file \/ clean_corrupted_data \/ rename_output

SpecRepair == InitRepair /\ [][NextRepair]_vars

-----------------------------------------------------------------------------
(* Sensing.py: parse_article_file, collect_all_articles, create_sensed_data_csv *)

\* s.split(c): the parts between the occurrences of c
RECURSIVE split(_, _)
split(s, c) ==
    IF find(s, c) = 0 THEN <<s>>
    ELSE <<SubSeq(s, 1, find(s, c) - 1)>> \o split(SubSeq(s, find(s, c) + 1, Len(s)), c)

\* ' '.join(parts)
RECURSIVE join_sp(_)
join_sp(parts) ==
    IF parts = <<>> THEN <<>>
    ELSE IF Len(parts) = 1 THEN parts[1]
    ELSE parts[1] \o <<SP>> \o join_sp(Tail(parts))

\* a pattern that collapses runs of spaces only
RECURSIVE collapse_ws_bug(_)
collapse_ws_bug(s) ==
    IF s = <<>> THEN <<>>
    ELSE IF Head(s) = SP /\ Len(s) > 1 /\ s[2] = SP THEN collapse_ws_bug(Tail(s))
    ELSE <<Head(s)>> \o collapse_ws_bug(Tail(s))

\* re.sub(r'\s+', ' ', s): every run of whitespace becomes one space
RECURSIVE collapse_ws(_)
collapse_ws(s) ==
    IF s = <<>> THEN <<>>
    ELSE IF IsSpace(Head(s))
    THEN <<SP>> \o collapse_ws(lstrip(s))
    ELSE <<Head(s)>> \o collapse_ws(Tail(s))

BY_PREFIX == "By "

\* the file cannot be decoded as UTF-8: read_text raises
Undecodable == <<"<undecodable>">>

\* a parser that takes the last line where the headline line is missing
parse_content_bug(content, category) ==
    LET lines == split(content, LF)
        header_line == IF Len(lines) > 0 THEN lines[1] ELSE <<>>
        byline_line == IF Len(lines) > 1 THEN lines[2] ELSE <<>>
        url_line == IF Len(lines) > 2 THEN lines[3] ELSE <<>>
        header_parts == split(header_line, "|")
    IN  [section |-> IF Len(header_parts) > 1 THEN strip(header_parts[2]) ELSE <<>>,
         date |-> IF Len(header_parts) > 2 THEN strip(header_parts[3]) ELSE <<>>,
         byline |-> strip(remove_char(byline_line, BY_PREFIX)),
         url |-> strip(url_line),
         headline |-> IF Len(lines) > 4 THEN strip(lines[5]) ELSE strip(lines[Len(lines)]),
         body_text |-> IF Len(lines) > 6
                       THEN strip(collapse_ws(join_sp(SubSeq(lines, 7, Len(lines)))))
                       ELSE <<>>,
         label |-> <<category>>]

\* parse_article_file for a readable file: content is its text, category the
\* name of its folder
parse_content(content, category) ==
    LET lines == split(content, LF)
        header_line == IF Len(lines) > 0 THEN lines[1] ELSE <<>>
        byline_line == IF Len(lines) > 1 THEN lines[2] ELSE <<>>
        url_line == IF Len(lines) > 2 THEN lines[3] ELSE <<>>
        header_parts == split(header_line, "|")
    IN  [section |-> IF Len(header_parts) > 1 THEN strip(header_parts[2]) ELSE <<>>,
         date |-> IF Len(header_parts) > 2 THEN strip(header_parts[3]) ELSE <<>>,
         byline |-> strip(remove_char(byline_line, BY_PREFIX)),
         url |-> strip(url_line),
         headline |-> IF Len(lines) > 4 THEN strip(lines[5]) ELSE <<>>,
         body_text |-> IF Len(lines) > 6
                       THEN strip(collapse_ws(join_sp(SubSeq(lines, 7, Len(lines)))))
                       ELSE <<>>,
         label |-> <<category>>]

\* parse_article_file(file_path): the record, or None when read_text raises
parse_article_file ==
    /\ article_data.status = "not called"
    /\ IF file_path.content = Undecodable
       THEN /\ article_data' = [status |-> "none", record |-> EmptyRecord]
            /\ log' = <<"Error parsing">>
       ELSE /\ article_data' = [status |-> "record",
                                record |-> parse_content(file_path.content, file_path.category)]
            /\ UNCHANGED log
    /\ UNCHANGED file_path
    /\ UNCHANGED scanVars
    /\ UNCHANGED rowVars
    /\ UNCHANGED valVars
    /\ UNCHANGED senseVars
    /\ UNCHANGED textVars

\* a loop over the files that ends at the first file whose parsing raises
RECURSIVE parse_files_bug(_, _)
parse_files_bug(files, category) ==
    IF files = <<>> \/ Head(files) = Undecodable THEN <<>>
    ELSE <<parse_content(Head(files), category)>> \o parse_files_bug(Tail(files), category)

\* the records of one category folder, in glob order; a file whose parsing
\* raises gives None and is skipped
RECURSIVE parse_files(_, _)
parse_files(files, category) ==
    IF files = <<>> THEN <<>>
    ELSE (IF Head(files) = Undecodable THEN <<>> ELSE <<parse_content(Head(files), category)>>)
            \o parse_files(Tail(files), category)

\* collect_all_articles: the categories in their fixed order, a missing
\* folder skipped
RECURSIVE collect_from(_, _)
collect_from(dir, k) ==
    IF k > Len(categories) THEN <<>>
    ELSE (IF dir[categories[k]].exists
          THEN parse_files(dir[categories[k]].files, categories[k])
          ELSE <<>>)
            \o collect_from(dir, k + 1)

collect_all_articles(dir) == collect_from(dir, 1)

\* if not articles
no_articles_bug(collected) == FALSE

no_articles(collected) == collected = <<>>

create_sensed_data_csv ==
    /\ sensed.status = "not run"
    /\ \E collected \in {collect_all_articles(data_dir)} :
         /\ articles' = collected
         /\ IF no_articles(collected)
            THEN \* "No articles found!": return
                 /\ sensed' = [status |-> "none", frame |-> EmptyFrame]
                 /\ log' = <<"Starting sensing process", "No articles found">>
                 /\ UNCHANGED scanVars
            ELSE \E written \in {to_csv(DataFrame(column_order, collected), FALSE)} :
                 \E skip \in {collect_skips(readlines(written))} :
                   \* df.to_csv(output_file), then clean_csv_file(output_file)
                   /\ sensed' = [status |-> "frame",
                                 frame |-> DataFrame(column_order, collected)]
                   /\ prev_text' = written
                   /\ lines_to_skip' = skip
                   /\ wrote' = does_write(skip)
                   /\ scan_runs' = scan_runs + 1
                   /\ csv_text' = IF does_write(skip)
                                  THEN concat(good_lines(readlines(written), skip))
                                  ELSE written
                   /\ log' = <<"Starting sensing process", "Sensing complete", "Data saved",
                               "Running CSV cleanup">>
                               \o (IF does_write(skip)
                                   THEN <<"Found lines to remove", "Cleanup complete">>
                                   ELSE <<"No broken lines found">>)
    /\ UNCHANGED data_dir
    /\ UNCHANGED rowVars
    /\ UNCHANGED valVars
    /\ UNCHANGED parseVars
    /\ UNCHANGED textVars

-----------------------------------------------------------------------------
(* Pre_Processing.py: clean_text *)

\* the characters of the mis-encoded sequences: U+00E2, U+20AC, U+2122,
\* U+0153, U+00A2, and the bullet U+2022
A_CIRC == "<U+00E2>"
EURO == "<U+20AC>"
TRADE == "<U+2122>"
OE_LIG == "<U+0153>"
CENT == "<U+00A2>"
BULLET == "<U+2022>"
APOSTROPHE == "'"
DASH == "-"

\* s.replace(old, new): the occurrences of old from left to right, without
\* overlap
RECURSIVE replace(_, _, _)
replace(s, old, new) ==
    IF Len(s) < Len(old) THEN s
    ELSE IF SubSeq(s, 1, Len(old)) = old
    THEN new \o replace(SubSeq(s, Len(old) + 1, Len(s)), old, new)
    ELSE <<Head(s)>> \o replace(Tail(s), old, new)

\* the place after the word that starts at s[i]
RECURSIVE word_end(_, _)
word_end(s, i) == IF i > Len(s) \/ IsSpace(s[i]) THEN i ELSE word_end(s, i + 1)

\* s.split(): the words between runs of whitespace
RECURSIVE split_ws(_)
split_ws(s) ==
    IF lstrip(s) = <<>> THEN <<>>
    ELSE LET t == lstrip(s)
             e == word_end(t, 1)
         IN  <<SubSeq(t, 1, e - 1)>> \o split_ws(SubSeq(t, e, Len(t)))

\* clean_text(text): '' for a value that is not a string; else the five
\* replacements in the order of the code, then ' '.join(text.split())
clean_text(v) ==
    IF v = NaN THEN <<>>
    ELSE LET t1 == replace(v, <<A_CIRC, EURO, TRADE>>, <<APOSTROPHE>>)
             t2 == replace(t1, <<A_CIRC, EURO, OE_LIG>>, <<QUOTE>>)
             t3 == replace(t2, <<A_CIRC, EURO>>, <<QUOTE>>)
             t4 == replace(t3, <<A_CIRC, EURO, QUOTE>>, <<DASH>>)
             t5 == replace(t4, <<A_CIRC, EURO, CENT>>, <<BULLET>>)
         IN  join_sp(split_ws(t5))

call_clean_text ==
    /\ cleaned = NotCleaned
    /\ cleaned' = clean_text(text_arg)
    /\ UNCHANGED <<text_arg, log>>
    /\ UNCHANGED scanVars
    /\ UNCHANGED rowVars
    /\ UNCHANGED valVars
    /\ UNCHANGED senseVars
    /\ UNCHANGED parseVars

\* the texts of up to MaxTextLen characters over the characters of the
\* sequences, a letter and a space; and a value that is not a string
MaxTextLen == 4

TextChars == {A_CIRC, EURO, TRADE, OE_LIG, CENT, QUOTE, "a", SP}

RECURSIVE TextsOfLen(_)
TextsOfLen(n) ==
    IF n = 0 THEN {<<>>} ELSE {Append(t, c) : t \in TextsOfLen(n - 1), c \in TextChars}

InitText ==
    /\ text_arg \in UNION {TextsOfLen(n) : n \in 0 .. MaxTextLen} \cup {NaN}
    /\ cleaned = NotCleaned
    /\ log = <<>>
    /\ ScanIdle
    /\ RowIdle
    /\ ValIdle
    /\ SenseIdle
    /\ ParseIdle

NextText == call_clean_text

SpecText == InitText /\ [][NextText]_vars

-----------------------------------------------------------------------------
(* Inputs of the pipeline: a data directory of raw article files *)

MaxFiles == 2

\* a raw file that follows the positional layout
RawFile(section, date, byline, url, headline, body) ==
    <<"The Guardian", SP, "|", SP>> \o section \o <<SP, "|", SP>> \o date \o <<LF>>
        \o <<BY_PREFIX>> \o byline \o <<LF>>
        \o url \o <<LF>>
        \o <<LF>>
        \o headline \o <<LF>>
        \o <<"---", LF>>
        \o body

ArticleUrl(c, i) == <<"https://", "www.", "theguardian.com", "/", c, "/", Payload(i)>>

\* a file with every field filled, on one body line
PlainFile(c, i) ==
    RawFile(<<"UK", SP, "news">>, <<"2024-01-01">>, <<"Ann", SP, "Lee">>, ArticleUrl(c, i),
            <<"Title">>, <<"<20 chars>", LF>>)

\* a file with delimiters and quotes in its headline and a body of two lines
QuotedFile(c, i) ==
    RawFile(<<"UK">>, <<"2024-01-01">>, <<"Ann">>, ArticleUrl(c, i),
            <<"Title", COMMA, SP, QUOTE, "Hi", QUOTE>>,
            <<"<20 chars>", COMMA, SP, SP, "news", LF, TAB, "<20 chars>", LF>>)

\* a file whose byline line holds no name
NoBylineFile(c, i) ==
    RawFile(<<"UK">>, <<"2024-01-01">>, <<>>, ArticleUrl(c, i), <<"Title">>,
            <<"<20 chars>">>)

GrammarFilesAt(c, i) == {PlainFile(c, i), QuotedFile(c, i), NoBylineFile(c, i)}
FilesAt(c, i) == GrammarFilesAt(c, i) \cup {Undecodable}

\* the directories that hold n files in all: folders that exist or not, and
\* the files added one at a time to a folder that exists
RECURSIVE DirsWith(_)
DirsWith(n) ==
    IF n = 0
    THEN [CategorySet -> {[exists |-> FALSE, files |-> <<>>], [exists |-> TRUE, files |-> <<>>]}]
    ELSE UNION {UNION {{[d EXCEPT ![c].files = Append(@, f)] :
                            f \in FilesAt(c, Len(d[c].files) + 1)} :
                       c \in {x \in CategorySet : d[x].exists}} :
                d \in DirsWith(n - 1)}

DataDirs == UNION {DirsWith(n) : n \in 0 .. MaxFiles}

InitPipeline ==
    /\ data_dir \in DataDirs
    /\ sensed = [status |-> "not run", frame |-> EmptyFrame]
    /\ articles = <<>>
    /\ log = <<>>
    /\ ScanIdle
    /\ RowIdle
    /\ ValIdle
    /\ ParseIdle
    /\ TextIdle

NextPipeline == create_sensed_data_csv \/ clean_corrupted_data

SpecPipeline == InitPipeline /\ [][NextPipeline]_vars

-----------------------------------------------------------------------------
(* Inputs of the parser: one raw file of up to MaxFileLines lines *)

MaxFileLines == 8

\* header lines of one, two, three and four '|'-separated parts, and an
\* empty one
HeaderLines ==
    { <<>>, <<"The Guardian">>, <<"The Guardian", SP, "|", SP, "UK", SP>>,
      <<"The Guardian", SP, "|", SP, "UK", SP, "|", SP, "2024-01-01">>,
      <<"The Guardian", "|", "UK", "|", "2024-01-01", "|", "Hi">> }

\* the i-th line of a file that follows the layout, and lines that carry
\* on the body
LayoutLine(header, i) ==
    IF i = 1 THEN header
    ELSE IF i = 2 THEN <<BY_PREFIX, "Ann", SP, "Lee">>
    ELSE IF i = 3 THEN <<SP>> \o ArticleUrl("news", 1)
    ELSE IF i = 4 THEN <<>>
    ELSE IF i = 5 THEN <<"Title", COMMA, SP, "Hi", SP>>
    ELSE IF i = 6 THEN <<"---">>
    ELSE IF i = 7 THEN <<"<20 chars>", TAB, SP>>
    ELSE <<"r1", SP, SP, "r2">>

\* the first k lines, each ended by a line break
RECURSIVE FirstLines(_, _)
FirstLines(header, k) ==
    IF k = 0 THEN <<>> ELSE FirstLines(header, k - 1) \o LayoutLine(header, k) \o <<LF>>

\* a short file: the first k lines, the last one with or without its line
\* break
ShortFiles ==
    UNION {{FirstLines(h, k), IF k = 0 THEN <<>> ELSE SubSeq(FirstLines(h, k), 1, Len(FirstLines(h, k)) - 1)} :
             h \in HeaderLines, k \in 0 .. MaxFileLines}

InitParse ==
    /\ file_path \in [content : ShortFiles \cup {Undecodable}, category : CategorySet]
    /\ article_data = NotParsed
    /\ log = <<>>
    /\ ScanIdle
    /\ RowIdle
    /\ ValIdle
    /\ SenseIdle
    /\ TextIdle

NextParse == parse_article_file

SpecParse == InitParse /\ [][NextParse]_vars

-----------------------------------------------------------------------------
(* Properties of the classifier *)

classified == verdict # NoVerdict
reasons == {verdict.issues[i] : i \in 1 .. Len(verdict.issues)}
field_len(c) == text_len(str(row[c]))
present(c) == row[c] # NaN

LabelPredicate ==
    ~present("label")
        \/ row["label"] \notin {<<"news">>, <<"sport">>, <<"commentisfree">>, <<"culture">>}
BodyShortPredicate == field_len("body_text") < 20
BodyStartPredicate ==
    \E c \in {"news", "sport", "commentisfree", "culture"} :
        startswith(str(row["body_text"]), c)
SectionPredicate == field_len("section") > 100
DatePredicate == present("date") /\ ~(8 <= field_len("date") /\ field_len("date") <= 20)
UrlPredicate ==
    ~contains(str(row["url"]), "theguardian.com") /\ ~contains(str(row["url"]), "https://")
BylinePredicate == field_len("byline") > 200
HeadlinePredicate == field_len("headline") < 5 \/ field_len("headline") > 500

\* C5: is_corrupted_row answers corrupted exactly when its reason list is not
\* empty, and the reason list is not empty exactly when one of the eight
\* predicates holds of the row.
RowClassification ==
    classified =>
        /\ verdict.is_corrupt <=> verdict.issues # <<>>
        /\ verdict.issues # <<>> <=>
              \/ LabelPredicate \/ BodyShortPredicate \/ BodyStartPredicate
              \/ SectionPredicate \/ DatePredicate \/ UrlPredicate
              \/ BylinePredicate \/ HeadlinePredicate

\* a row flagged for its headline length alone
RowClassificationWitness ==
    /\ classified
    /\ verdict.is_corrupt
    /\ verdict.issues = <<"Headline too long">>

\* C6: a present label outside the four categories gives the reason
\* "Invalid label", a headline of fewer than 5 characters gives "Headline too
\* short", the url not-a-url gives "Invalid URL", whatever the other fields.
PredicateCoverage ==
    classified =>
        /\ (present("label") /\ ~in_list(row["label"], categories))
              => "Invalid label" \in reasons
        /\ (present("headline") /\ text_len(row["headline"]) < 5)
              => "Headline too short" \in reasons
        /\ row["url"] = <<"not-a-url">> => "Invalid URL" \in reasons

PredicateCoverageWitness ==
    /\ classified
    /\ row["label"] = <<"weather">>
    /\ row["headline"] = <<"Hi">>
    /\ row["url"] = <<"not-a-url">>
    /\ verdict.issues = <<"Invalid label", "Invalid URL", "Headline too short">>

\* C7 as claimed: "Invalid URL" is reported exactly when the url holds
\* neither the domain token nor a scheme prefix, http:// or https://.
has_scheme_prefix(u) == contains(u, "https://") \/ contains(u, "http://")

UrlSchemeAsClaimed ==
    classified =>
        ("Invalid URL" \in reasons <=>
            ~contains(str(row["url"]), "theguardian.com") /\ ~has_scheme_prefix(str(row["url"])))

\* C7 as amended: "Invalid URL" is reported exactly when the url text holds
\* neither theguardian.com nor https:// anywhere in it; a url that starts
\* with http:// and lacks the domain token is flagged.
UrlSchemeAmended ==
    classified =>
        /\ "Invalid URL" \in reasons <=> UrlPredicate
        /\ (startswith(str(row["url"]), "http://")
               /\ ~contains(str(row["url"]), "theguardian.com"))
              => "Invalid URL" \in reasons

UrlSchemeWitness ==
    /\ classified
    /\ row["url"] = <<"http://", "example.org">>
    /\ "Invalid URL" \in reasons

-----------------------------------------------------------------------------
(* Properties of the validator *)

\* the number of occurrences of c in s
RECURSIVE count(_, _)
count(s, c) == IF s = <<>> THEN 0 ELSE (IF Head(s) = c THEN 1 ELSE 0) + count(Tail(s), c)

\* the k-th (from 1) smallest element of a finite set of naturals
Nth(S, k) == CHOOSE j \in S : Cardinality({m \in S : m < j}) = k - 1

pass_done == outcome \in {"returned", "raised"}
n_rows == Len(df.rows)
corrupted_set == {corrupted_indices[k] : k \in 1 .. Len(corrupted_indices)}
expected_removal ==
    UNION {{i - 1, i, i + 1} \cap (0 .. n_rows - 1) : i \in corrupted_set}
expected_survivors == (0 .. n_rows - 1) \ expected_removal

\* C4: the removal set is the union, over the corrupted positions i, of
\* {i-1, i, i+1} cut to 0..n-1; the surviving rows keep their order and are
\* indexed from 0.
BlastRadius ==
    pass_done =>
        /\ corrupted_set = {i \in 0 .. n_rows - 1 : row_issues(df.rows[i + 1]) # <<>>}
        /\ indices_to_remove = expected_removal
        /\ (n_rows = 10 /\ corrupted_set = {5}) => indices_to_remove = {4, 5, 6}
        /\ (n_rows = 10 /\ corrupted_set = {0}) => indices_to_remove = {0, 1}
        /\ (n_rows = 10 /\ corrupted_set = {9}) => indices_to_remove = {8, 9}
        /\ Len(df_clean.rows) = Cardinality(expected_survivors)
        /\ \A k \in 1 .. Len(df_clean.rows) :
               /\ df_clean.rows[k] = df.rows[Nth(expected_survivors, k) + 1]
               /\ df_clean.index[k] = k - 1

BlastRadiusWitness ==
    /\ outcome = "returned"
    /\ passes = 1
    /\ n_rows = 10
    /\ corrupted_indices = <<5>>
    /\ indices_to_remove = {4, 5, 6}
    /\ Len(df_clean.rows) = 7

\* C8: a pass over a corpus in which no row is flagged removes no row, and a
\* second pass, over the output of the first, finds no flagged row and
\* removes nothing.
ValidationIdempotent ==
    pass_done =>
        /\ corrupted_indices = <<>> =>
              (indices_to_remove = {} /\ df_clean.rows = df.rows)
        /\ input_from = "validator" =>
              (corrupted_indices = <<>> /\ indices_to_remove = {} /\ df_clean = df)

\* a second pass over a corpus from which the first pass removed rows
ValidationIdempotentWitness ==
    /\ outcome = "returned"
    /\ input_from = "validator"
    /\ n_rows >= 2
    /\ df.rows[1]["url"][5] # Payload(1)
    /\ indices_to_remove = {}
    /\ df_clean.rows = df.rows

\* C9: after a pass the per-label counts of the cleaned corpus add up to its
\* number of rows, which is the initial number of rows less the size of the
\* removal set.
RECURSIVE SumOver(_, _)
SumOver(f, S) ==
    IF S = {} THEN 0
    ELSE LET x == CHOOSE y \in S : TRUE IN f[x] + SumOver(f, S \ {x})

CategoryConservation ==
    pass_done =>
        /\ SumOver(value_counts(df_clean), DOMAIN value_counts(df_clean)) = Len(df_clean.rows)
        /\ Len(df_clean.rows) = n_rows - Cardinality(indices_to_remove)

CategoryConservationWitness ==
    /\ outcome = "returned"
    /\ passes = 1
    /\ \E k \in 1 .. n_rows : df.rows[k]["label"] = NaN
    /\ Cardinality(DOMAIN value_counts(df_clean)) >= 2
    /\ Cardinality(indices_to_remove) >= 2
    /\ Len(df_clean.rows) >= 2

\* C14: clean_corrupted_data returns normally for every decodable corpus
\* of the seven columns, one with no data row and one all of whose rows are
\* removed included; it writes its output and raises nothing.
ValidatorNeverFatal ==
    passes > 0 =>
        /\ outcome # "raised"
        /\ (outcome = "returned" /\ Len(df_clean.rows) = 0) => output_file # NoFile

\* the same for the corpora of at least one data row
ValidatorReturnsOnRows ==
    (passes > 0 /\ n_rows > 0) => outcome # "raised"

\* C22: every flagged row is in the removal set and a row is classified by
\* its own fields alone, so the classifier, run again over the rows that are
\* left, counts no remaining issue: "rows still have issues" is never
\* printed.
NoResidualCorruption ==
    outcome = "returned" =>
        /\ corrupted_set \subseteq indices_to_remove
        /\ \A k \in 1 .. Len(df_clean.rows) : ~row_verdict(df_clean.rows[k]).is_corrupt
        /\ remaining_issues = 0
        /\ ~contains(log, "rows still have issues")
        /\ contains(log, "All rows passed validation")

\* a pass that removed flagged rows and left others
NoResidualCorruptionWitness ==
    /\ outcome = "returned"
    /\ passes = 1
    /\ Len(corrupted_indices) >= 1
    /\ Len(df_clean.rows) >= 1
    /\ Len(df_clean.rows) < n_rows
    /\ remaining_issues = 0

-----------------------------------------------------------------------------
(* Properties of the repair passes *)

scanner_step == scan_runs' = scan_runs + 1
validator_step == passes' = passes + 1

\* C15 as claimed: after a run of either repair pass the file it was given
\* still has its original content.
RepairKeepsInput ==
    [][(scanner_step \/ validator_step) => csv_text' = csv_text]_vars

\* C15 as amended: clean_corrupted_data leaves the file it reads as it was
\* and, when it returns, writes its result to another file; clean_csv_file
\* leaves its file as it was only when it finds no line to delete, and
\* otherwise overwrites that file with the lines it keeps.
RepairInputAmended ==
    [][/\ validator_step =>
             /\ csv_text' = csv_text
             /\ outcome' = "returned" => output_file' = to_csv(df_clean', TRUE)
       /\ (scanner_step /\ csv_text # NoFile) =>
             /\ wrote' = (collect_skips(readlines(csv_text)) # {})
             /\ ~wrote' => csv_text' = csv_text
             /\ wrote' => /\ csv_text' # csv_text
                          /\ readlines(csv_text') =
                                 keep_from(readlines(csv_text), lines_to_skip', 0)
      ]_vars

\* the scanner has overwritten the file that the validator then read
RepairInputWitness ==
    /\ scan_runs = 1
    /\ wrote
    /\ csv_text # prev_text
    /\ Len(readlines(csv_text)) = Len(readlines(prev_text)) - 2
    /\ outcome = "returned"
    /\ output_file # NoFile
    /\ output_file # csv_text

-----------------------------------------------------------------------------
(* Properties of the pipeline *)

\* the validator has read the file create_sensed_data_csv wrote
decoded == sensed.status = "frame" /\ pass_done /\ input_from = "sensing"

\* C10: every record parsed from a file that follows the layout, written by
\* create_sensed_data_csv and read back by read_csv, is a row equal to the
\* record in all seven fields, a record with an empty byline included.
RoundTrip ==
    decoded =>
        /\ Len(df.rows) = Len(sensed.frame.rows)
        /\ \A k \in 1 .. Len(df.rows) :
               \A c \in Columns : df.rows[k][c] = sensed.frame.rows[k][c]

\* the same for the records none of whose fields is empty
RoundTripOfFilledRecords ==
    decoded =>
        /\ Len(df.rows) = Len(sensed.frame.rows)
        /\ \A k \in 1 .. Len(df.rows) :
               (\A c \in Columns : sensed.frame.rows[k][c] # <<>>)
                   => \A c \in Columns : df.rows[k][c] = sensed.frame.rows[k][c]

sensing_done == sensed.status # "not run"

\* the files of a category that parse: those of an existing folder that can
\* be decoded, in glob order
parsable(c) ==
    IF data_dir[c].exists THEN SelectSeq(data_dir[c].files, LAMBDA f : f # Undecodable) ELSE <<>>

\* the number of parsable files in the categories before the k-th
RECURSIVE records_before(_)
records_before(k) ==
    IF k <= 1 THEN 0 ELSE records_before(k - 1) + Len(parsable(categories[k - 1]))

\* C12: whatever folders are missing and whatever files fail to parse,
\* collect_all_articles returns one record per parsable file and no other:
\* the records of news first, then sport, commentisfree and culture, each
\* labelled with the category of its folder.
CollectorTolerance ==
    sensing_done =>
        /\ sensed.status \in {"none", "frame"}
        /\ Len(articles) = records_before(Len(categories) + 1)
        /\ \A k \in 1 .. Len(categories) :
               \A j \in 1 .. Len(parsable(categories[k])) :
                   /\ articles[records_before(k) + j].label = <<categories[k]>>
                   /\ articles[records_before(k) + j]
                         = parse_content(parsable(categories[k])[j], categories[k])

\* no news folder, a sport folder whose first file cannot be decoded and
\* whose second can
CollectorToleranceWitness ==
    /\ sensing_done
    /\ ~data_dir["news"].exists
    /\ Len(data_dir["sport"].files) = 2
    /\ data_dir["sport"].files[1] = Undecodable
    /\ data_dir["sport"].files[2] # Undecodable
    /\ Len(articles) = 1
    /\ articles[1].label = <<"sport">>

\* the place of a message in what was printed, 0 when it was not
printed_at(msg) == find(log, msg)

\* C13: when no record is collected create_sensed_data_csv prints its
\* diagnostic and returns nothing: no file is written and the scanner does
\* not run. When a record is collected the file is written, with a line for
\* the header and one for every record, and the scanner then runs once, on
\* that file.
EmptyCorpusTermination ==
    sensing_done =>
        /\ sensed.status = "none" <=> articles = <<>>
        /\ sensed.status = "none" =>
              /\ csv_text = NoFile
              /\ ~wrote
              /\ scan_runs = 0
              /\ log = <<"Starting sensing process", "No articles found">>
        /\ sensed.status = "frame" =>
              /\ prev_text # NoFile
              /\ Len(csv_records(prev_text)) = Len(articles) + 1
              /\ scan_runs = 1
              /\ passes = 0 =>
                    /\ printed_at("Data saved") > 0
                    /\ printed_at("Data saved") < printed_at("Running CSV cleanup")

\* a data directory whose only file cannot be decoded
EmptyCorpusTerminationWitness ==
    /\ sensed.status = "none"
    /\ \E c \in CategorySet : data_dir[c].exists /\ data_dir[c].files = <<Undecodable>>
    /\ csv_text = NoFile
    /\ scan_runs = 0

\* the physical lines of the file create_sensed_data_csv wrote
written_lines == readlines(prev_text)

\* a text in which every run of whitespace is one space, with none at its ends
normalized(t) ==
    /\ \A i \in 1 .. Len(t) : t[i] \notin {LF, TAB}
    /\ \A i \in 1 .. Len(t) - 1 : ~(t[i] = SP /\ t[i + 1] = SP)
    /\ t # <<>> => (t[1] # SP /\ t[Len(t)] # SP)

\* C18: the records of parse_article_file hold no line break, their
\* body_text is normalized, and the file written for n of them has n + 1
\* physical lines, none of them broken: the scanner deletes nothing.
OneLinePerRecord ==
    sensed.status = "frame" =>
        /\ \A k \in 1 .. Len(articles) :
               /\ \A c \in Columns : ~contains(articles[k][c], LF)
               /\ normalized(articles[k].body_text)
        /\ Len(written_lines) = Len(articles) + 1
        /\ \A i \in 1 .. Len(written_lines) : ~is_broken(written_lines[i])
        /\ lines_to_skip = {}
        /\ ~wrote
        /\ csv_text = prev_text

\* two records, one of them from a file whose body runs over two lines
OneLinePerRecordWitness ==
    /\ sensed.status = "frame"
    /\ Len(articles) = 2
    /\ \E c \in CategorySet : \E f \in 1 .. Len(data_dir[c].files) :
           /\ data_dir[c].files[f] # Undecodable
           /\ count(data_dir[c].files[f], LF) = 8
    /\ Len(written_lines) = 3
    /\ scan_runs = 1

\* whether every field of the record that starts at t[i] is wrapped in
\* quote characters, and the place after the record. mode is "start" (a
\* field must open here), "quoted" (inside the quotes) or "closing" (after
\* a quote character inside them).
RECURSIVE record_quoted(_, _, _)
record_quoted(t, i, mode) ==
    IF mode = "start"
    THEN IF i <= Len(t) /\ t[i] = QUOTE
         THEN record_quoted(t, i + 1, "quoted")
         ELSE [ok |-> FALSE, next |-> Len(t) + 1]
    ELSE IF i > Len(t)
    THEN [ok |-> mode = "closing", next |-> i]
    ELSE IF mode = "quoted"
    THEN record_quoted(t, i + 1, IF t[i] = QUOTE THEN "closing" ELSE "quoted")
    ELSE IF t[i] = QUOTE THEN record_quoted(t, i + 1, "quoted")
    ELSE IF t[i] = COMMA THEN record_quoted(t, i + 1, "start")
    ELSE [ok |-> t[i] = LF, next |-> i + 1]

RECURSIVE all_quoted_from(_, _)
all_quoted_from(t, i) ==
    IF i > Len(t) THEN TRUE
    ELSE LET r == record_quoted(t, i, "start")
         IN  r.ok /\ all_quoted_from(t, r.next)

\* every field of every record of the file is wrapped in quote characters
all_quoted(t) == all_quoted_from(t, 1)

\* C17: the file create_sensed_data_csv writes and the file the validator
\* writes have every field of every record, the header included, wrapped in
\* quote characters, whatever the field holds.
QuoteAllPolicy ==
    /\ sensed.status = "frame" => all_quoted(prev_text)
    /\ output_file # NoFile => all_quoted(output_file)

\* the same for the validator's output alone
ValidatorQuotesAll ==
    output_file # NoFile => all_quoted(output_file)

-----------------------------------------------------------------------------
(* Properties of the scanner *)

\* the input and the output of the last run of clean_csv_file, as lines
in_lines == readlines(prev_text)
out_lines == readlines(csv_text)
scanned == scan_runs > 0 /\ prev_text # NoFile

broken_set == {i \in 0 .. Len(in_lines) - 1 : is_broken(in_lines[i + 1])}

\* C1: a file whose line 0 is the header and all of whose lines start with a
\* valid label, except that one record is split into a parent (still starting
\* with its label) and a fragment right after it: clean_csv_file removes
\* exactly these two lines; all other lines, the header included, stay as
\* they were and in their order.
OneSplitRecord(i) ==
    /\ i >= 2
    /\ first_col(in_lines[1]) = <<"label">>
    /\ broken_set = {i}

ScannerPrecision ==
    scanned =>
        \A i \in 0 .. Len(in_lines) - 1 :
            OneSplitRecord(i) =>
                /\ lines_to_skip = {i - 1, i}
                /\ out_lines = SubSeq(in_lines, 1, i - 1)
                                  \o SubSeq(in_lines, i + 2, Len(in_lines))
                /\ out_lines[1] = in_lines[1]

ScannerPrecisionWitness ==
    /\ scanned
    /\ scan_runs = 1
    /\ \E i \in 2 .. Len(in_lines) - 2 : OneSplitRecord(i)
    /\ Len(out_lines) = Len(in_lines) - 2
    /\ Len(out_lines) >= 2

\* C2: when no physical line is broken, the deletion set is empty, the file
\* is not opened for writing and its content is unchanged.
ScannerNoOp ==
    (scanned /\ broken_set = {}) =>
        /\ lines_to_skip = {}
        /\ ~wrote
        /\ csv_text = prev_text

ScannerNoOpWitness ==
    /\ scanned
    /\ scan_runs = 1
    /\ Len(in_lines) >= 3
    /\ broken_set = {}
    /\ log = <<"Running CSV cleanup", "No broken lines found">>

\* C3: the deletion set is the set of broken lines together with the
\* predecessor of each broken line that has one, and the output is the input
\* without exactly these lines, the others in their original order.
expected_skips == broken_set \cup {i - 1 : i \in broken_set \ {0}}
expected_kept == (0 .. Len(in_lines) - 1) \ expected_skips

ScannerDeletionSet ==
    scanned =>
        /\ lines_to_skip = expected_skips
        /\ Len(out_lines) = Cardinality(expected_kept)
        /\ \A k \in 1 .. Len(out_lines) :
               out_lines[k] = in_lines[Nth(expected_kept, k) + 1]

ScannerDeletionSetWitness ==
    /\ scanned
    /\ scan_runs = 1
    /\ 0 \in broken_set
    /\ Cardinality(broken_set) = 2
    /\ Cardinality(lines_to_skip) = 3
    /\ Len(out_lines) = 1

-----------------------------------------------------------------------------
(* Properties of the parser *)

parsed == article_data.status # "not called"
readable == file_path.content # Undecodable
\* the lines of the file: one more than its line breaks
n_lines == count(file_path.content, LF) + 1
\* the '|'-separated parts of its first line
n_header_parts == count(split_first(file_path.content, LF), "|") + 1

\* C11: for a readable file of any number of lines parse_article_file returns
\* a record, in which byline is empty for fewer than 2 lines, url for fewer
\* than 3, headline for fewer than 5, body_text for fewer than 7, section
\* for a header of fewer than 2 parts and date for fewer than 3; the same
\* holds counting the physical lines of the file.
ShortFilesAccepted ==
    (parsed /\ readable) =>
        /\ article_data.status = "record"
        /\ article_data.record.label = <<file_path.category>>
        /\ \A k \in {n_lines, Len(readlines(file_path.content))} :
              /\ k < 2 => article_data.record.byline = <<>>
              /\ k < 3 => article_data.record.url = <<>>
              /\ k < 5 => article_data.record.headline = <<>>
              /\ k < 7 => article_data.record.body_text = <<>>
        /\ n_header_parts < 2 => article_data.record.section = <<>>
        /\ n_header_parts < 3 => article_data.record.date = <<>>

\* a file of three lines: a record with its url, without headline and body
ShortFilesAcceptedWitness ==
    /\ parsed
    /\ readable
    /\ n_lines = 3
    /\ n_header_parts = 2
    /\ article_data.status = "record"
    /\ article_data.record.section = <<"UK">>
    /\ article_data.record.date = <<>>
    /\ article_data.record.byline = <<"Ann", SP, "Lee">>
    /\ article_data.record.url = ArticleUrl("news", 1)
    /\ article_data.record.headline = <<>>
    /\ article_data.record.body_text = <<>>

\* C21: after a run of clean_csv_file every line that is left starts with a
\* valid label or the header token, so a second run on the output deletes
\* nothing and leaves the file as it is.
ScannerOutputClean ==
    /\ scanned => \A m \in 1 .. Len(out_lines) : ~is_broken(out_lines[m])
    /\ (scanned /\ scan_runs >= 2) =>
          /\ lines_to_skip = {}
          /\ ~wrote
          /\ csv_text = prev_text

\* a second run over what the first run left of a file of four lines, two
\* of which it deleted
ScannerOutputCleanWitness ==
    /\ scanned
    /\ scan_runs = 2
    /\ Len(in_lines) = 2
    /\ contains(in_lines[2], Payload(4))
    /\ lines_to_skip = {}
    /\ csv_text = prev_text

\* C23: when line 0 of the input is the header, the header is the first
\* line of the output of clean_csv_file and index 0 is never in the
\* deletion set, also when line 1 is classified broken.
HeaderPreserved ==
    (scanned /\ Len(in_lines) >= 1 /\ first_col(in_lines[1]) = <<"label">>) =>
        /\ 0 \notin lines_to_skip
        /\ Len(out_lines) >= 1
        /\ out_lines[1] = in_lines[1]

\* the same for the inputs whose line 1, if there is one, is not broken
HeaderPreservedUnlessLineOneBroken ==
    (scanned /\ Len(in_lines) >= 1 /\ first_col(in_lines[1]) = <<"label">>
        /\ (Len(in_lines) >= 2 => ~is_broken(in_lines[2]))) =>
        /\ 0 \notin lines_to_skip
        /\ out_lines[1] = in_lines[1]

\* a record split over 1 + k physical lines: the parent at line p, which
\* starts with a label, and the fragments at lines p+1 .. p+k, none of which
\* does
SplitSpan(p, k) ==
    /\ p >= 1
    /\ k >= 2
    /\ p + k <= Len(in_lines) - 1
    /\ ~is_broken(in_lines[p + 1])
    /\ \A j \in p + 1 .. p + k : is_broken(in_lines[j + 1])

\* C16 as claimed: of a record split over three or more lines the scanner
\* deletes the parent and the first fragment only; the later fragments stay.
PartialSpanRepair ==
    scanned =>
        \A p \in 0 .. Len(in_lines) - 1 : \A k \in 2 .. Len(in_lines) :
            SplitSpan(p, k) => lines_to_skip \cap (p .. p + k) = {p, p + 1}

\* C16 as amended: of a record split over three or more lines the scanner
\* deletes the parent and every fragment, each fragment being itself a
\* broken line; none of these lines is in the output.
WholeSpanRepair ==
    scanned =>
        \A p \in 0 .. Len(in_lines) - 1 : \A k \in 2 .. Len(in_lines) :
            SplitSpan(p, k) =>
                /\ (p .. p + k) \subseteq lines_to_skip
                /\ wrote
                /\ Len(out_lines) = Len(in_lines) - Cardinality(lines_to_skip)
                /\ \A j \in p .. p + k : \A m \in 1 .. Len(out_lines) :
                       out_lines[m] # in_lines[j + 1]

\* header, parent and two fragments: only the header is left
WholeSpanRepairWitness ==
    /\ scanned
    /\ scan_runs = 1
    /\ Len(in_lines) = 4
    /\ first_col(in_lines[1]) = <<"label">>
    /\ SplitSpan(1, 2)
    /\ lines_to_skip = {1, 2, 3}
    /\ out_lines = <<in_lines[1]>>

\* the text left of a first column when a byte-order mark in front of it
\* and the whitespace and quote characters around it are taken away
RECURSIVE trim_left(_)
trim_left(s) == IF s # <<>> /\ (IsSpace(Head(s)) \/ Head(s) = QUOTE) THEN trim_left(Tail(s)) ELSE s

RECURSIVE trim_right(_)
trim_right(s) ==
    IF s # <<>> /\ (IsSpace(s[Len(s)]) \/ s[Len(s)] = QUOTE)
    THEN trim_right(SubSeq(s, 1, Len(s) - 1)) ELSE s

surrounded_token(fc) ==
    trim_right(trim_left(IF fc # <<>> /\ Head(fc) = BOM THEN Tail(fc) ELSE fc))

\* the first column is a valid label or the header token with whitespace,
\* quote characters and a leading byte-order mark around it
label_surrounded(line) ==
    \E l \in valid_labels : surrounded_token(split_first(line, COMMA)) = <<l>>

\* the first column holds no valid label, whatever is taken away from it
no_label_within(line) ==
    ~(\E l \in valid_labels : contains(split_first(line, COMMA), l))

\* C20: a line whose first column is a valid label or the header token
\* surrounded by any combination of whitespace, quote characters and a
\* leading byte-order mark is not classified broken, so a file made of that
\* line alone is left as it is; a line with any other first column, an
\* empty line included, is classified broken and deleted.
TokenExtraction ==
    (scanned /\ Len(in_lines) = 1) =>
        /\ label_surrounded(in_lines[1]) => (lines_to_skip = {} /\ csv_text = prev_text)
        /\ no_label_within(in_lines[1]) => (lines_to_skip = {0} /\ csv_text = <<>>)

\* the same for the first columns the code does accept: those that are a
\* valid label once the whitespace at both ends is stripped and then every
\* quote character and byte-order mark is removed
TokenExtractionInOrder ==
    (scanned /\ Len(in_lines) = 1) =>
        (lines_to_skip = {} <=>
            \E l \in valid_labels :
                SelectSeq(strip(split_first(in_lines[1], COMMA)),
                          LAMBDA c : c \notin {QUOTE, BOM}) = <<l>>)

-----------------------------------------------------------------------------
(* Properties of clean_text *)

text_cleaned == cleaned # NotCleaned /\ text_arg # NaN

\* old occurs in s
occurs(s, old) == \E i \in 1 .. Len(s) - Len(old) + 1 : SubSeq(s, i, i + Len(old) - 1) = old

\* C19: a text that holds the apostrophe sequence comes out with ', one with
\* the left-quote or the right-quote sequence with ", one with the em-dash
\* sequence (the right-quote sequence followed by ") with - in its place, and
\* one with the bullet sequence with its replacement; no sequence is left.
MojibakeRemap ==
    text_cleaned =>
        /\ occurs(text_arg, <<A_CIRC, EURO, TRADE>>) => contains(cleaned, APOSTROPHE)
        /\ occurs(text_arg, <<A_CIRC, EURO, OE_LIG>>) => contains(cleaned, QUOTE)
        /\ occurs(text_arg, <<A_CIRC, EURO>>) => ~occurs(cleaned, <<A_CIRC, EURO>>)
        /\ occurs(text_arg, <<A_CIRC, EURO, QUOTE>>) => contains(cleaned, DASH)
        /\ occurs(text_arg, <<A_CIRC, EURO, CENT>>) => contains(cleaned, BULLET)

\* what the code does with the last two sequences: the right-quote
\* replacement has consumed their first two characters, and neither - nor
\* the bullet is ever produced
MojibakeDashNeverMapped ==
    text_cleaned =>
        /\ ~contains(cleaned, DASH)
        /\ ~contains(cleaned, BULLET)
        /\ text_arg = <<A_CIRC, EURO, QUOTE>> => cleaned = <<QUOTE, QUOTE>>
        /\ text_arg = <<A_CIRC, EURO, CENT>> => cleaned = <<QUOTE, CENT>>

=============================================================================
